---------------------------- MODULE Spec2Model ----------------------------
(* Floating-window manager (WindowManager.tsx) and task progress tracker   *)
(* (ExtraTools.tsx) of the image/PDF tool application, as state machines.  *)
(*                                                                         *)
(* React state is modelled at the level of the state-updater queue: every  *)
(* setX(prev => ...) call is one atomic replacement of the state, applied  *)
(* in call order. Values captured by closures at render time (maxZIndex    *)
(* inside getNextZIndex) are kept apart from the state itself and are only *)
(* refreshed by the Render step.                                           *)
EXTENDS Integers, Sequences, FiniteSets, TLC

(***************************************************************************)
(* Bounds of the model                                                     *)
(***************************************************************************)
\* drag and resize gestures started in one behaviour
MaxGestures == 2
\* export popups shown in one behaviour
MaxPopups == 2
\* clicks on the save-and-share button of one popup
MaxShares == 2
\* characters of an input string handed to parseRangeInput
MaxLen == 5
\* descriptors of a list handed to expandRangesToPages directly
MaxRanges == 2
\* largest page number of such a descriptor
MaxPageNumber == 4
\* calls of the export adapter explored in one behaviour
MaxExports == 2
\* number of getNextZIndex calls explored in one behaviour
MaxIssued == 5
\* pages of a PDF given to handlePdfToZip
MaxPages == 2
\* image files given to handleImagesToPdf
MaxFiles == 2
\* rows of the grid of handleImageSplitter
MaxSplit == 2
\* length up to which the tracker specification appends log entries
MaxLogs == 2

(***************************************************************************)
(* Program constants                                                       *)
(***************************************************************************)
\* useState(2000)
InitialMaxZIndex == 2000
\* window.innerWidth of the modelled viewport (a browser-supplied value)
InnerWidth == 1024

\* window.innerHeight of the modelled viewport (a browser-supplied value)
InnerHeight == 768
\* const snapThreshold = 20
SnapThreshold == 20
\* FloatingWindow props: minWidth = 300, minHeight = 200
MinWidth == 300
MinHeight == 200

WinIds == {"w1", "w2"}

VARIABLES
  windows,            \* WindowManagerProvider: windows state, id -> WindowState
  maxZIndex,          \* WindowManagerProvider: maxZIndex state (all queued updates applied)
  renderedMaxZIndex,  \* maxZIndex as captured by the getNextZIndex closure of the last render
  issued,             \* history: values returned by getNextZIndex, in call order
  lastCall            \* history: the last window-manager call (operation and target id)

wmVars == <<windows, maxZIndex, renderedMaxZIndex, issued, lastCall>>

VARIABLES
  tasks,              \* ExtraTools: tasks state, task type -> TaskState
  runs,               \* handler invocations: position and locals of each async handler run
  active,             \* the run executing a synchronous segment (0: the event loop is idle)
  dialog,             \* the task type whose file picker is open ("none": no picker open)
  lastOp,             \* history: the last task-tracker operation applied to tasks
  showProgressWindow  \* ExtraTools: showProgressWindow state

trackerVars == <<tasks, runs, active, dialog, lastOp, showProgressWindow>>

VARIABLES
  exportState         \* export adapter (browserUtils.ts): the call in progress, the live
                      \* object URLs, the pending revoke timers and the calls made so far

exportVars == <<exportState>>

VARIABLES
  gestures            \* FloatingWindow: the drag and resize gestures started so far, each with
                      \* the values its closures captured and the document listeners it holds

gestureVars == <<gestures>>

VARIABLES
  rangeState          \* range parser (rangeParser.ts): an input and what was computed from it

rangeVars == <<rangeState>>

VARIABLES
  popups              \* export popups (browserUtils.ts) shown so far: per popup its overlay,
                      \* its promise and the share handlers still awaiting

popupVars == <<popups>>

vars == <<wmVars, trackerVars, exportVars, gestureVars, rangeVars, popupVars>>

(***************************************************************************)
(* JavaScript object helpers                                               *)
(***************************************************************************)
\* {} : the object with no own keys (also what spreading undefined yields)
EmptyObj == [k \in {} |-> TRUE]

\* { ...a, ...b } : keys of b override keys of a
Spread(a, b) == b @@ a

\* prev[id], spread-ready: undefined spreads as {}
Entry(prev, id) == IF id \in DOMAIN prev THEN prev[id] ELSE EmptyObj

\* { ...prev, [id]: e }
SetEntry(prev, id, e) == (id :> e) @@ prev

\* truthiness of an optional boolean field
Truthy(w, f) == f \in DOMAIN w /\ w[f] = TRUE

(***************************************************************************)
(* Window manager operations                                               *)
(***************************************************************************)
\* the defaults createWindow merges under the caller's initialState
DefaultWindow(id, z) ==
  [id |-> id, visible |-> TRUE,
   position |-> [x |-> 100, y |-> 100],
   size |-> [width |-> 400, height |-> 300],
   zIndex |-> z, minimized |-> FALSE, maximized |-> FALSE,
   snapState |-> "none", title |-> "Window"]

\* value returned by getNextZIndex: the render-time maxZIndex plus one
getNextZIndex == renderedMaxZIndex + 1

\* updater of createWindow
createWindow(prev, id, initialState, z) ==
  SetEntry(prev, id, Spread(DefaultWindow(id, z), initialState))

\* closeWindow that drops the entry from the registry
closeWindowRemoves(prev, id) == [k \in DOMAIN prev \ {id} |-> prev[k]]

\* updater of closeWindow
closeWindow(prev, id) ==
  SetEntry(prev, id, Spread(Entry(prev, id), [visible |-> FALSE]))

\* updater of updateWindow
updateWindow(prev, id, updates) ==
  SetEntry(prev, id, Spread(Entry(prev, id), updates))

\* focusWindow that also makes the window visible
focusWindowShows(prev, id, z) ==
  SetEntry(prev, id, Spread(Entry(prev, id), [zIndex |-> z, visible |-> TRUE]))

\* updater of focusWindow
focusWindow(prev, id, z) ==
  SetEntry(prev, id, Spread(Entry(prev, id), [zIndex |-> z]))

\* updater of minimizeWindow
minimizeWindow(prev, id) ==
  SetEntry(prev, id, Spread(Entry(prev, id), [minimized |-> TRUE]))

\* maximizeWindow that pins the stored position to the viewport origin
maximizeWindowPinned(prev, id) ==
  SetEntry(prev, id, Spread(Entry(prev, id),
           [maximized |-> TRUE, minimized |-> FALSE, position |-> [x |-> 0, y |-> 0]]))

\* updater of maximizeWindow
maximizeWindow(prev, id) ==
  SetEntry(prev, id, Spread(Entry(prev, id), [maximized |-> TRUE, minimized |-> FALSE]))

\* updater of restoreWindow
restoreWindow(prev, id) ==
  SetEntry(prev, id, Spread(Entry(prev, id), [maximized |-> FALSE, minimized |-> FALSE]))

\* geometry part of FloatingWindow's windowStyle
windowStyle(w) ==
  IF Truthy(w, "maximized")
    THEN [left |-> 0, top |-> 0, width |-> "100vw", height |-> "100vh"]
    ELSE [left |-> w.position.x, top |-> w.position.y,
          width |-> w.size.width, height |-> w.size.height]

(***************************************************************************)
(* Inputs                                                                  *)
(***************************************************************************)
\* initialState of the progress window, as ExtraTools passes it
ProgressWindowInit ==
  [title |-> "Task Progress",
   position |-> [x |-> InnerWidth - 450, y |-> 100],
   size |-> [width |-> 400, height |-> 500],
   icon |-> "chart", visible |-> FALSE]

InitialStates == {[title |-> "T"], [title |-> "U"], ProgressWindowInit}

\* ids the callers pass to the non-creating operations: FloatingWindow renders
\* its controls only for a registered window, MinimizedWindowBar lists only
\* registered windows, openProgressWindow checks the registry first
Registered == DOMAIN windows

Updates == {[visible |-> TRUE]}

\* position and size as stored in an entry (the geometry rendered when not maximized)
StoredGeometry(w) ==
  [left |-> w.position.x, top |-> w.position.y,
   width |-> w.size.width, height |-> w.size.height]

NoGeometry == [left |-> -1, top |-> -1, width |-> -1, height |-> -1]

\* the entry has a stored position and size
HasGeometry(w) == {"position", "size"} \subseteq DOMAIN w

\* history record of a call; pre is the stored geometry of the target before a
\* maximizeWindow call, carried over by a restoreWindow call that directly follows it
Call(op, id, pre) == [op |-> op, id |-> id, pre |-> pre]

(***************************************************************************)
(* Task progress tracker operations                                        *)
(***************************************************************************)
TaskTypes == {"pdfToZip", "imagesToPdf", "textToTxt", "imageSplitter", "qrGenerator"}

\* an unset optional field (result?: Blob, fileName?: string)
Undefined == "undefined"

\* the entry every task type starts with in useState
InitialTask ==
  [status |-> "idle", progress |-> 0, total |-> 0, logs |-> <<>>,
   result |-> Undefined, fileName |-> Undefined]

\* addLog that puts the new entry in front of the log
addLogPrepend(prev, taskType, message, type) ==
  [prev EXCEPT ![taskType].logs = <<[message |-> message, type |-> type]>> \o @]

\* addLog that also marks the task as processing
addLogMarksProcessing(prev, taskType, message, type) ==
  [prev EXCEPT ![taskType].logs = Append(@, [message |-> message, type |-> type]),
               ![taskType].status = "processing"]

\* updater of addLog
addLog(prev, taskType, message, type) ==
  [prev EXCEPT ![taskType].logs = Append(@, [message |-> message, type |-> type])]

\* updateTaskProgress with its two counters exchanged
updateTaskProgressSwapped(prev, taskType, progress, total) ==
  [prev EXCEPT ![taskType].progress = total,
               ![taskType].total = progress,
               ![taskType].status = "processing"]

\* updater of updateTaskProgress
updateTaskProgress(prev, taskType, progress, total) ==
  [prev EXCEPT ![taskType].progress = progress,
               ![taskType].total = total,
               ![taskType].status = "processing"]

\* updater of completeTask
completeTask(prev, taskType, result, fileName) ==
  [prev EXCEPT ![taskType].status = "completed",
               ![taskType].result = result,
               ![taskType].fileName = fileName]

\* resetTask that leaves the output handle of the last run in place
resetTaskKeepsOutput(prev, taskType) ==
  [prev EXCEPT ![taskType].status = "idle",
               ![taskType].progress = 0,
               ![taskType].total = 0,
               ![taskType].logs = <<>>]

\* resetTask that puts every task type back to its initial entry
resetTaskAll(prev, taskType) == [t \in DOMAIN prev |-> InitialTask]

\* updater of resetTask
resetTask(prev, taskType) ==
  [prev EXCEPT ![taskType].status = "idle",
               ![taskType].progress = 0,
               ![taskType].total = 0,
               ![taskType].logs = <<>>,
               ![taskType].result = Undefined,
               ![taskType].fileName = Undefined]

\* a catch block that leaves the status as it is
setErrorSkipped(prev, taskType) == prev

\* updater in the catch blocks: setTasks(prev => ({...prev, t: {...prev.t, status: 'error'}}))
setError(prev, taskType) ==
  [prev EXCEPT ![taskType].status = "error"]

\* history record of a tracker operation
Op(op, taskType, run) == [op |-> op, task |-> taskType, run |-> run]

(***************************************************************************)
(* Initial state                                                           *)
(***************************************************************************)
WMInit ==
  /\ windows = EmptyObj
  /\ maxZIndex = InitialMaxZIndex
  /\ renderedMaxZIndex = InitialMaxZIndex
  /\ issued = <<>>
  /\ lastCall = Call("none", "none", NoGeometry)

\* handler invocations of one behaviour: a run and a second one that may
\* overlap it (the superseded and the superseding run of a task type)
Runs == {1, 2}

\* threw (history): an external call awaited by the run has thrown
\* exportFailed (history): the export step of the run has thrown
NoRun == [type |-> "none", pc |-> "unused", n |-> 0, i |-> 0, threw |-> FALSE,
          exportFailed |-> FALSE]

TrackerInit ==
  /\ tasks = [t \in TaskTypes |-> InitialTask]
  /\ runs = [r \in Runs |-> NoRun]
  /\ active = 0
  /\ dialog = "none"
  /\ lastOp = Op("none", "none", 0)
  /\ showProgressWindow = FALSE

\* no export call made yet, no object URL alive
ExportInit ==
  exportState =
    [pc |-> "idle", entry |-> "none", native |-> FALSE, caller |-> "none",
     urls |-> {}, pending |-> {}, created |-> 0, url |-> 0, dbUrl |-> 0,
     acts |-> <<>>, sfdOutcome |-> "none", calls |-> 0]

\* no gesture started
GestureInit == gestures = <<>>

\* a ParseResult before any call
NoResult == [success |-> FALSE, ranges |-> <<>>, errors |-> <<>>]

\* the empty input and the empty descriptor list, nothing parsed or expanded yet
NoCall(input, given) ==
  [input |-> input, given |-> given, parsed |-> FALSE, result |-> NoResult,
   expanded |-> FALSE, source |-> <<>>, pages |-> <<>>]

RangeInit == rangeState = NoCall(<<>>, <<>>)

\* no popup shown yet
PopupInit == popups = <<>>

Init == WMInit /\ TrackerInit /\ ExportInit /\ GestureInit /\ RangeInit /\ PopupInit

(***************************************************************************)
(* Actions of the window manager                                           *)
(***************************************************************************)
\* the counter side of getNextZIndex: setMaxZIndex(prev => prev + 1)
Issue ==
  /\ Len(issued) < MaxIssued
  /\ maxZIndex' = maxZIndex + 1
  /\ issued' = Append(issued, getNextZIndex)

CreateWindow(id, initialState) ==
  /\ UNCHANGED <<trackerVars, exportVars, gestureVars, rangeVars, popupVars>>
  /\ Issue
  /\ windows' = createWindow(windows, id, initialState, getNextZIndex)
  /\ lastCall' = Call("createWindow", id, NoGeometry)
  /\ UNCHANGED renderedMaxZIndex

FocusWindow(id) ==
  /\ UNCHANGED <<trackerVars, exportVars, gestureVars, rangeVars, popupVars>>
  /\ Issue
  /\ windows' = focusWindow(windows, id, getNextZIndex)
  /\ lastCall' = Call("focusWindow", id, NoGeometry)
  /\ UNCHANGED renderedMaxZIndex

CloseWindow(id) ==
  /\ UNCHANGED <<trackerVars, exportVars, gestureVars, rangeVars, popupVars>>
  /\ windows' = closeWindow(windows, id)
  /\ lastCall' = Call("closeWindow", id, NoGeometry)
  /\ UNCHANGED <<maxZIndex, renderedMaxZIndex, issued>>

UpdateWindow(id, updates) ==
  /\ UNCHANGED <<trackerVars, exportVars, gestureVars, rangeVars, popupVars>>
  /\ windows' = updateWindow(windows, id, updates)
  /\ lastCall' = Call("updateWindow", id, NoGeometry)
  /\ UNCHANGED <<maxZIndex, renderedMaxZIndex, issued>>

MinimizeWindow(id) ==
  /\ UNCHANGED <<trackerVars, exportVars, gestureVars, rangeVars, popupVars>>
  /\ windows' = minimizeWindow(windows, id)
  /\ lastCall' = Call("minimizeWindow", id, NoGeometry)
  /\ UNCHANGED <<maxZIndex, renderedMaxZIndex, issued>>

MaximizeWindow(id) ==
  /\ UNCHANGED <<trackerVars, exportVars, gestureVars, rangeVars, popupVars>>
  /\ windows' = maximizeWindow(windows, id)
  /\ lastCall' = Call("maximizeWindow", id,
                      IF HasGeometry(Entry(windows, id))
                        THEN StoredGeometry(windows[id]) ELSE NoGeometry)
  /\ UNCHANGED <<maxZIndex, renderedMaxZIndex, issued>>

RestoreWindow(id) ==
  /\ UNCHANGED <<trackerVars, exportVars, gestureVars, rangeVars, popupVars>>
  /\ windows' = restoreWindow(windows, id)
  /\ lastCall' = Call("restoreWindow", id,
                      IF lastCall.op = "maximizeWindow" /\ lastCall.id = id
                        THEN lastCall.pre ELSE NoGeometry)
  /\ UNCHANGED <<maxZIndex, renderedMaxZIndex, issued>>

\* the provider re-renders: the callbacks are re-created over the current maxZIndex
Render ==
  /\ UNCHANGED <<trackerVars, exportVars, gestureVars, rangeVars, popupVars>>
  /\ renderedMaxZIndex # maxZIndex
  /\ renderedMaxZIndex' = maxZIndex
  /\ UNCHANGED <<windows, maxZIndex, issued, lastCall>>

WMNext ==
  \/ \E id \in WinIds, initialState \in InitialStates : CreateWindow(id, initialState)
  \/ \E id \in Registered : FocusWindow(id)
  \/ \E id \in Registered : CloseWindow(id)
  \/ \E id \in Registered, updates \in Updates : UpdateWindow(id, updates)
  \/ \E id \in Registered : MinimizeWindow(id)
  \/ \E id \in Registered : MaximizeWindow(id)
  \/ \E id \in Registered : RestoreWindow(id)
  \/ Render

Spec == Init /\ [][WMNext]_vars

\* the operations as the context exposes them, called with any id, created or not
AnyIdNext ==
  \/ \E id \in WinIds : CreateWindow(id, [title |-> "T"])
  \/ \E id \in WinIds : FocusWindow(id)
  \/ \E id \in WinIds : CloseWindow(id)
  \/ \E id \in WinIds, updates \in Updates : UpdateWindow(id, updates)
  \/ \E id \in WinIds : MinimizeWindow(id)
  \/ \E id \in WinIds : MaximizeWindow(id)
  \/ \E id \in WinIds : RestoreWindow(id)
  \/ Render

SpecAnyId == Init /\ [][AnyIdNext]_vars

(***************************************************************************)
(* Task tracker as an interface: the five state replacements, called with  *)
(* any arguments in any order                                              *)
(***************************************************************************)
TrackerTypes == {"pdfToZip", "imagesToPdf"}
Progresses == {0, 2}
Totals == {0, 10}
\* (result, fileName) pairs passed to completeTask; both parameters are optional
Outputs == {<<"blob", "x.zip">>, <<Undefined, Undefined>>}
LogTypes == {"info", "error"}

handlerVars == <<runs, active, dialog, showProgressWindow>>

AddLog(taskType, message, type) ==
  /\ Len(tasks[taskType].logs) < MaxLogs
  /\ tasks' = addLog(tasks, taskType, message, type)
  /\ lastOp' = Op("addLog", taskType, 0)
  /\ UNCHANGED <<wmVars, handlerVars, exportVars, gestureVars, rangeVars, popupVars>>

UpdateTaskProgress(taskType, progress, total) ==
  /\ tasks' = updateTaskProgress(tasks, taskType, progress, total)
  /\ lastOp' = Op("updateTaskProgress", taskType, 0)
  /\ UNCHANGED <<wmVars, handlerVars, exportVars, gestureVars, rangeVars, popupVars>>

CompleteTask(taskType, result, fileName) ==
  /\ tasks' = completeTask(tasks, taskType, result, fileName)
  /\ lastOp' = Op("completeTask", taskType, 0)
  /\ UNCHANGED <<wmVars, handlerVars, exportVars, gestureVars, rangeVars, popupVars>>

ResetTask(taskType) ==
  /\ tasks' = resetTask(tasks, taskType)
  /\ lastOp' = Op("resetTask", taskType, 0)
  /\ UNCHANGED <<wmVars, handlerVars, exportVars, gestureVars, rangeVars, popupVars>>

SetError(taskType) ==
  /\ tasks' = setError(tasks, taskType)
  /\ lastOp' = Op("setError", taskType, 0)
  /\ UNCHANGED <<wmVars, handlerVars, exportVars, gestureVars, rangeVars, popupVars>>

TrackerNext ==
  \/ \E t \in TrackerTypes, ty \in LogTypes : AddLog(t, "m", ty)
  \/ \E t \in TrackerTypes, p \in Progresses, tot \in Totals : UpdateTaskProgress(t, p, tot)
  \/ \E t \in TrackerTypes, o \in Outputs : CompleteTask(t, o[1], o[2])
  \/ \E t \in TrackerTypes : ResetTask(t)
  \/ \E t \in TrackerTypes : SetError(t)

SpecTracker == Init /\ [][TrackerNext]_vars


(***************************************************************************)
(* Handlers of ExtraTools. A run is one invocation of an async handler. It  *)
(* executes synchronously (active = r) from one awaited call to the next;   *)
(* at an await it yields to the event loop (active = 0), where any awaited  *)
(* call may settle and any user event may be handled. Each tracker call is  *)
(* one step, so every state replacement of tasks is a state of the model.   *)
(* Consecutive awaits with no tracker call between them are one await.      *)
(***************************************************************************)
\* a later run of the same task type has called resetTask and is in progress
Superseded(r) ==
  \E q \in Runs :
    /\ q > r
    /\ runs[q].type = runs[r].type
    /\ runs[q].pc \notin {"unused", "reset", "invalid", "done"}

\* a tracker call that is dropped once the run has been superseded
TrackerStepCancelled(r, newTasks, op, newRun, yield) ==
  /\ active = r
  /\ tasks' = IF Superseded(r) THEN tasks ELSE newTasks
  /\ lastOp' = Op(op, runs[r].type, r)
  /\ runs' = [runs EXCEPT ![r] = newRun]
  /\ active' = IF yield THEN 0 ELSE r
  /\ showProgressWindow' = IF op = "resetTask" THEN TRUE ELSE showProgressWindow
  /\ UNCHANGED <<dialog, wmVars, exportVars, gestureVars, rangeVars, popupVars>>

\* one tracker call of run r: tasks is replaced, the run moves on
TrackerStep(r, newTasks, op, newRun, yield) ==
  /\ active = r
  /\ tasks' = newTasks
  /\ lastOp' = Op(op, runs[r].type, r)
  /\ runs' = [runs EXCEPT ![r] = newRun]
  /\ active' = IF yield THEN 0 ELSE r
  \* resetTask(t); setShowProgressWindow(true); setActiveProgressTab(t)
  /\ showProgressWindow' = IF op = "resetTask" THEN TRUE ELSE showProgressWindow
  /\ UNCHANGED <<dialog, wmVars, exportVars, gestureVars, rangeVars, popupVars>>

\* an awaited call of run r settles and the run continues up to its next
\* tracker call (yield = FALSE) or its next await (yield = TRUE)
Settle(r, newRun, yield) ==
  /\ active = 0
  /\ runs' = [runs EXCEPT ![r] = newRun]
  /\ active' = IF yield THEN 0 ELSE r
  /\ UNCHANGED <<tasks, lastOp, dialog, wmVars, showProgressWindow, exportVars, gestureVars, rangeVars, popupVars>>

\* the next unused run slot
FreeRun(r) ==
  /\ runs[r].pc = "unused"
  /\ \A q \in Runs : q < r => runs[q].pc # "unused"

\* the trigger button of a file-input tool: disabled while the task is processing
OpenPicker(taskType) ==
  /\ active = 0
  /\ dialog = "none"
  /\ tasks[taskType].status # "processing"
  /\ \E r \in Runs : FreeRun(r)
  /\ dialog' = taskType
  /\ UNCHANGED <<tasks, runs, active, lastOp, wmVars, showProgressWindow, exportVars, gestureVars, rangeVars, popupVars>>

\* the picker is dismissed without a selection (no change event, or no file)
CancelPicker ==
  /\ active = 0
  /\ dialog # "none"
  /\ dialog' = "none"
  /\ UNCHANGED <<tasks, runs, active, lastOp, wmVars, showProgressWindow, exportVars, gestureVars, rangeVars, popupVars>>

\* a change event of a file input invokes its handler with n usable files
StartFromPicker(r, taskType, n, valid) ==
  /\ active = 0
  /\ dialog = taskType
  /\ FreeRun(r)
  /\ runs' = [runs EXCEPT ![r] =
                [type |-> taskType, pc |-> IF valid THEN "reset" ELSE "invalid",
                 n |-> n, i |-> 0, threw |-> FALSE, exportFailed |-> FALSE]]
  /\ active' = r
  /\ dialog' = "none"
  /\ UNCHANGED <<tasks, lastOp, wmVars, showProgressWindow, exportVars, gestureVars, rangeVars, popupVars>>

\* the Download TXT button (never disabled) invokes handleTextToTxt
StartTextToTxt(r, valid) ==
  /\ active = 0
  /\ dialog = "none"
  /\ FreeRun(r)
  /\ runs' = [runs EXCEPT ![r] =
                [type |-> "textToTxt", pc |-> IF valid THEN "reset" ELSE "invalid",
                 n |-> 1, i |-> 0, threw |-> FALSE, exportFailed |-> FALSE]]
  /\ active' = r
  /\ UNCHANGED <<tasks, dialog, lastOp, wmVars, showProgressWindow, exportVars, gestureVars, rangeVars, popupVars>>

\* the Reset button of the progress window, shown for a completed task with a result
UserReset(taskType) ==
  /\ active = 0
  /\ dialog = "none"
  /\ tasks[taskType].status = "completed"
  /\ tasks[taskType].result # Undefined
  /\ tasks' = resetTask(tasks, taskType)
  /\ lastOp' = Op("resetTask", taskType, 0)
  /\ UNCHANGED <<runs, active, dialog, wmVars, showProgressWindow, exportVars, gestureVars, rangeVars, popupVars>>

At(r, pc) == [runs[r] EXCEPT !.pc = pc]

\* the run continues at pc after an awaited external call has thrown
Thrown(r, pc) == [runs[r] EXCEPT !.pc = pc, !.threw = TRUE]

\* steps shared by the handlers: the start of a run and its completion and catch
\* blocks, which differ between handlers only in the message texts
CommonSteps(r, t) ==
  LET pc == runs[r].pc IN
  \/ /\ pc = "reset"
     /\ TrackerStep(r, resetTask(tasks, t), "resetTask", At(r, "logStart"), FALSE)
  \/ /\ pc = "complete"
     /\ TrackerStep(r, completeTask(tasks, t, "blob", "output"), "completeTask",
                    At(r, "logDone"), FALSE)
  \/ /\ pc = "logDone"
     /\ TrackerStep(r, addLog(tasks, t, "Completed", "success"), "addLog",
                    At(r, "export"), TRUE)
  \/ /\ pc = "catchLog"
     /\ TrackerStep(r, addLog(tasks, t, "Error", "error"), "addLog",
                    At(r, "setError"), FALSE)
  \/ /\ pc = "setError"
     /\ TrackerStep(r, setError(tasks, t), "setError", At(r, "done"), TRUE)

\* an awaited external call inside the handler's try block: it returns or it throws
AwaitInTry(r, pc, next, yield) ==
  /\ runs[r].pc = pc
  /\ \/ Settle(r, next, yield)
     \/ Settle(r, Thrown(r, "catchLog"), FALSE)

\* the export step inside the handler's try block:
\* await import('../utils/browserUtils'); await handleFileExport(blob, name)
ExportInTry(r) ==
  /\ runs[r].pc = "export"
  /\ \/ Settle(r, At(r, "done"), TRUE)
     \/ Settle(r, [runs[r] EXCEPT !.pc = "catchLog", !.exportFailed = TRUE], FALSE)

handlePdfToZip(r) ==
  LET t == "pdfToZip"
      run == runs[r]
      pc == run.pc
      loop(i) == IF i <= run.n THEN "logExtracting" ELSE "logZip"
  IN
  /\ run.type = t
  /\ \/ CommonSteps(r, t)
     \/ /\ pc = "logStart"
        /\ TrackerStep(r, addLog(tasks, t, "Starting extraction", "info"), "addLog",
                       At(r, "load"), TRUE)
     \* await file.arrayBuffer(); await pdfjsLib.getDocument(...).promise
     \/ /\ pc = "load"
        /\ \/ \E numPages \in 0..MaxPages :
                Settle(r, [run EXCEPT !.pc = "progress0", !.n = numPages, !.i = 1], FALSE)
           \/ Settle(r, Thrown(r, "catchLog"), FALSE)
     \/ /\ pc = "progress0"
        /\ TrackerStep(r, updateTaskProgress(tasks, t, 0, run.n), "updateTaskProgress",
                       At(r, "logTotal"), FALSE)
     \/ /\ pc = "logTotal"
        /\ TrackerStep(r, addLog(tasks, t, "Total pages", "info"), "addLog",
                       At(r, loop(1)), FALSE)
     \/ /\ pc = "logExtracting"
        /\ TrackerStep(r, addLog(tasks, t, "Extracting page", "progress"), "addLog",
                       At(r, "page"), TRUE)
     \* await pdf.getPage(); await page.render().promise; await canvas.toBlob
     \/ AwaitInTry(r, "page", At(r, "progressPage"), FALSE)
     \/ /\ pc = "progressPage"
        /\ TrackerStep(r, updateTaskProgress(tasks, t, run.i, run.n), "updateTaskProgress",
                       At(r, "logExtracted"), FALSE)
     \/ /\ pc = "logExtracted"
        /\ TrackerStep(r, addLog(tasks, t, "Extracted", "info"), "addLog",
                       [run EXCEPT !.pc = loop(run.i + 1), !.i = run.i + 1], FALSE)
     \/ /\ pc = "logZip"
        /\ TrackerStep(r, addLog(tasks, t, "Creating ZIP file", "info"), "addLog",
                       At(r, "zip"), TRUE)
     \* await zip.generateAsync()
     \/ AwaitInTry(r, "zip", At(r, "complete"), FALSE)
     \/ ExportInTry(r)

handleImagesToPdf(r) ==
  LET t == "imagesToPdf"
      run == runs[r]
      pc == run.pc
      \* the loop's continue / next iteration: i counts the files done
      next == [run EXCEPT !.pc = IF run.i + 1 < run.n THEN "logProcessing" ELSE "logGenerating",
                          !.i = run.i + 1]
  IN
  /\ run.type = t
  /\ \/ CommonSteps(r, t)
     \/ /\ pc = "invalid"
        /\ TrackerStep(r, addLog(tasks, t, "No valid image files selected", "error"), "addLog",
                       At(r, "done"), TRUE)
     \/ /\ pc = "logStart"
        /\ TrackerStep(r, addLog(tasks, t, "Converting images", "info"), "addLog",
                       At(r, "progress0"), FALSE)
     \/ /\ pc = "progress0"
        /\ TrackerStep(r, updateTaskProgress(tasks, t, 0, run.n), "updateTaskProgress",
                       At(r, "create"), TRUE)
     \* await PDFDocument.create()
     \/ AwaitInTry(r, "create", At(r, "logProcessing"), FALSE)
     \/ /\ pc = "logProcessing"
        /\ TrackerStep(r, addLog(tasks, t, "Processing", "progress"), "addLog",
                       At(r, "read"), TRUE)
     \* await file.arrayBuffer(), then the branch on file.type
     \/ /\ pc = "read"
        /\ \/ Settle(r, At(r, "embed"), TRUE)
           \/ Settle(r, At(r, "logSkip"), FALSE)
           \/ Settle(r, Thrown(r, "catchLog"), FALSE)
     \* await pdfDoc.embedPng() / embedJpg() inside the inner try
     \/ /\ pc = "embed"
        /\ \/ Settle(r, At(r, "progressFile"), FALSE)
           \/ Settle(r, Thrown(r, "logFileError"), FALSE)
     \/ /\ pc = "logSkip"
        /\ TrackerStep(r, addLog(tasks, t, "Skipping unsupported format", "error"), "addLog",
                       next, FALSE)
     \/ /\ pc = "logFileError"
        /\ TrackerStep(r, addLog(tasks, t, "Error processing", "error"), "addLog",
                       next, FALSE)
     \/ /\ pc = "progressFile"
        /\ TrackerStep(r, updateTaskProgress(tasks, t, run.i + 1, run.n), "updateTaskProgress",
                       At(r, "logAdded"), FALSE)
     \/ /\ pc = "logAdded"
        /\ TrackerStep(r, addLog(tasks, t, "Added", "info"), "addLog", next, FALSE)
     \/ /\ pc = "logGenerating"
        /\ TrackerStep(r, addLog(tasks, t, "Generating PDF", "info"), "addLog",
                       At(r, "save"), TRUE)
     \* await pdfDoc.save()
     \/ AwaitInTry(r, "save", At(r, "complete"), FALSE)
     \/ ExportInTry(r)

handleTextToTxt(r) ==
  LET t == "textToTxt"
      pc == runs[r].pc
  IN
  /\ runs[r].type = t
  /\ \/ /\ pc \in {"reset", "complete", "logDone"}
        /\ CommonSteps(r, t)
     \/ /\ pc = "invalid"
        /\ TrackerStep(r, addLog(tasks, t, "Please enter some text first", "error"), "addLog",
                       At(r, "done"), TRUE)
     \/ /\ pc = "logStart"
        /\ TrackerStep(r, addLog(tasks, t, "Creating text file", "info"), "addLog",
                       At(r, "progress1"), FALSE)
     \/ /\ pc = "progress1"
        /\ TrackerStep(r, updateTaskProgress(tasks, t, 1, 1), "updateTaskProgress",
                       At(r, "complete"), FALSE)
     \* await import(); await handleFileExport(): no try block around them, a
     \* rejection ends the handler
     \/ /\ pc = "export"
        /\ \/ Settle(r, At(r, "done"), TRUE)
           \/ Settle(r, [runs[r] EXCEPT !.pc = "done", !.exportFailed = TRUE], TRUE)

handleImageSplitter(r) ==
  LET t == "imageSplitter"
      run == runs[r]
      pc == run.pc
  IN
  /\ run.type = t
  /\ \/ CommonSteps(r, t)
     \/ /\ pc = "invalid"
        /\ TrackerStep(r, addLog(tasks, t, "Please select a valid image file", "error"), "addLog",
                       At(r, "done"), TRUE)
     \/ /\ pc = "logStart"
        /\ TrackerStep(r, addLog(tasks, t, "Splitting image", "info"), "addLog",
                       At(r, "progress0"), FALSE)
     \/ /\ pc = "progress0"
        /\ TrackerStep(r, updateTaskProgress(tasks, t, 0, run.n), "updateTaskProgress",
                       At(r, "loadImage"), TRUE)
     \* await img load; await import('jszip'); the loops run up to the first toBlob
     \/ AwaitInTry(r, "loadImage", At(r, "piece"), TRUE)
     \* await canvas.toBlob
     \/ AwaitInTry(r, "piece", At(r, "progressPiece"), FALSE)
     \* pieceCount++; updateTaskProgress(pieceCount, totalPieces)
     \/ /\ pc = "progressPiece"
        /\ TrackerStep(r, updateTaskProgress(tasks, t, run.i + 1, run.n), "updateTaskProgress",
                       [run EXCEPT !.pc = "logCreated", !.i = run.i + 1], FALSE)
     \/ /\ pc = "logCreated"
        /\ \/ /\ run.i < run.n
              /\ TrackerStep(r, addLog(tasks, t, "Created", "info"), "addLog",
                             At(r, "piece"), TRUE)
           \/ /\ run.i >= run.n
              /\ TrackerStep(r, addLog(tasks, t, "Created", "info"), "addLog",
                             At(r, "logZip"), FALSE)
     \/ /\ pc = "logZip"
        /\ TrackerStep(r, addLog(tasks, t, "Creating ZIP file", "info"), "addLog",
                       At(r, "zip"), TRUE)
     \/ AwaitInTry(r, "zip", At(r, "complete"), FALSE)
     \/ ExportInTry(r)

handleQrGenerator(r) ==
  LET t == "qrGenerator"
      pc == runs[r].pc
  IN
  /\ runs[r].type = t
  /\ \/ CommonSteps(r, t)
     \/ /\ pc = "invalid"
        /\ TrackerStep(r, addLog(tasks, t, "Please enter text or URL first", "error"), "addLog",
                       At(r, "done"), TRUE)
     \/ /\ pc = "logStart"
        /\ TrackerStep(r, addLog(tasks, t, "Generating QR code", "info"), "addLog",
                       At(r, "progress1"), FALSE)
     \/ /\ pc = "progress1"
        /\ TrackerStep(r, updateTaskProgress(tasks, t, 1, 1), "updateTaskProgress",
                       At(r, "generate"), TRUE)
     \* await import('qrcode'); await QRCode.toDataURL(); await fetch(); await response.blob()
     \/ AwaitInTry(r, "generate", At(r, "complete"), FALSE)
     \/ ExportInTry(r)

\* the Generate QR button (never disabled) invokes handleQrGenerator
StartQrGenerator(r, valid) ==
  /\ active = 0
  /\ dialog = "none"
  /\ FreeRun(r)
  /\ runs' = [runs EXCEPT ![r] =
                [type |-> "qrGenerator", pc |-> IF valid THEN "reset" ELSE "invalid",
                 n |-> 1, i |-> 0, threw |-> FALSE, exportFailed |-> FALSE]]
  /\ active' = r
  /\ UNCHANGED <<tasks, dialog, lastOp, wmVars, showProgressWindow, exportVars, gestureVars, rangeVars, popupVars>>

\* the values setSplitRows / setSplitCols can hold in the model
SplitRows == 1..MaxSplit
SplitCols == {1, 2}

TasksNext ==
  \/ \E t \in {"pdfToZip", "imagesToPdf", "imageSplitter"} : OpenPicker(t)
  \/ CancelPicker
  \/ \E r \in Runs : StartFromPicker(r, "pdfToZip", 0, TRUE)
  \/ \E r \in Runs, n \in 0..MaxFiles : StartFromPicker(r, "imagesToPdf", n, n > 0)
  \/ \E r \in Runs, rows \in SplitRows, cols \in SplitCols, valid \in BOOLEAN :
       StartFromPicker(r, "imageSplitter", rows * cols, valid)
  \/ \E r \in Runs, valid \in BOOLEAN : StartTextToTxt(r, valid)
  \/ \E r \in Runs, valid \in BOOLEAN : StartQrGenerator(r, valid)
  \/ \E t \in TaskTypes : UserReset(t)
  \/ \E r \in Runs : handlePdfToZip(r)
  \/ \E r \in Runs : handleImagesToPdf(r)
  \/ \E r \in Runs : handleTextToTxt(r)
  \/ \E r \in Runs : handleImageSplitter(r)
  \/ \E r \in Runs : handleQrGenerator(r)

SpecTasks == Init /\ [][TasksNext]_vars

\* the steps of one handler run
RunStep(r) ==
  \/ handlePdfToZip(r)
  \/ handleImagesToPdf(r)
  \/ handleTextToTxt(r)
  \/ handleImageSplitter(r)
  \/ handleQrGenerator(r)

\* every awaited call eventually returns or throws, and the event loop then
\* runs the continuation of the handler to its next await
SpecTasksFair == SpecTasks /\ \A r \in Runs : WF_vars(RunStep(r))

\* a handler run between its resetTask call and its completeTask call or catch block
InFlight(r) ==
  runs[r].pc \notin {"unused", "invalid", "reset", "logDone", "export",
                     "catchLog", "setError", "done"}

\* the disabled attribute of a tool's trigger button: the file-input tools
\* disable it while the task is processing, the text tools have no such attribute
TriggerDisabled(t) ==
  /\ t \in {"pdfToZip", "imagesToPdf", "imageSplitter"}
  /\ tasks[t].status = "processing"

(***************************************************************************)
(* Window manager: properties                                              *)
(***************************************************************************)
\* C1: createWindow(id, partial) for an id already in the registry is a no-op:
\* the existing entry is left exactly as it was.
C1_CreateExistingIsNoOp ==
  [][\A id \in WinIds, initialState \in InitialStates :
       (id \in DOMAIN windows /\ CreateWindow(id, initialState))
         => windows'[id] = windows[id]]_vars

\* C2: each focusWindow(id) gives window id a zIndex strictly greater than every
\* zIndex handed out before it (no value is handed out twice).
C2_FocusGetsFreshZIndex ==
  lastCall.op = "focusWindow" =>
    \A k \in 1..(Len(issued) - 1) : windows[lastCall.id].zIndex > issued[k]

\* the windows holding the maximum zIndex of the registry
TopWindows ==
  {id \in DOMAIN windows :
     \A other \in DOMAIN windows : windows[id].zIndex >= windows[other].zIndex}

\* C3: with at least one window registered, exactly one window holds the
\* maximum zIndex.
C3_UniqueTopWindow ==
  DOMAIN windows # {} => Cardinality(TopWindows) = 1

\* C4: no window has minimized = true and maximized = true at the same time.
C4_MinimizedMaximizedExclusive ==
  \A id \in DOMAIN windows :
    ~(Truthy(windows[id], "minimized") /\ Truthy(windows[id], "maximized"))

\* C5: maximizeWindow leaves the stored position and size untouched, and a
\* restoreWindow that follows it renders the window at exactly the position and
\* size it had before maximizing.
C5_MaximizeRestoreGeometry ==
  /\ lastCall.op = "maximizeWindow" =>
       StoredGeometry(windows[lastCall.id]) = lastCall.pre
  /\ (lastCall.op = "restoreWindow" /\ lastCall.pre # NoGeometry) =>
       /\ windowStyle(windows[lastCall.id]) = lastCall.pre
       /\ StoredGeometry(windows[lastCall.id]) = lastCall.pre

\* a window with a non-default geometry was maximized and then restored
C5_Witness ==
  /\ lastCall.op = "restoreWindow"
  /\ lastCall.pre # NoGeometry
  /\ lastCall.pre.left = InnerWidth - 450
  /\ ~Truthy(windows[lastCall.id], "maximized")

(***************************************************************************)
(* Task tracker: properties                                                *)
(***************************************************************************)
\* C6: the status of a task only moves idle -> processing -> (completed | error);
\* error and completed are never entered directly from idle, processing is never
\* re-entered after completed or error, and only resetTask returns it to idle.
C6_StatusSequence ==
  [][\A t \in TaskTypes :
       LET a == tasks[t].status
           b == tasks'[t].status
       IN a # b =>
            \/ b = "idle" /\ lastOp'.op = "resetTask" /\ lastOp'.task = t
            \/ a = "idle" /\ b = "processing"
            \/ a = "processing" /\ b \in {"completed", "error"}]_vars

\* C7: updateTaskProgress(p, t) leaves status = processing, progress = p and
\* total = t; completeTask(r, f) leaves status = completed, result = r and
\* fileName = f with progress, total and logs unchanged; resetTask leaves the
\* task idle with progress 0, total 0, no logs, no result and no fileName, in
\* one state replacement.
C7_TaskLifecycle ==
  [][\A t \in TrackerTypes :
       /\ \A p \in Progresses, tot \in Totals :
            UpdateTaskProgress(t, p, tot) =>
              /\ tasks'[t].status = "processing"
              /\ tasks'[t].progress = p
              /\ tasks'[t].total = tot
       /\ \A o \in Outputs :
            CompleteTask(t, o[1], o[2]) =>
              /\ tasks'[t].status = "completed"
              /\ tasks'[t].result = o[1]
              /\ tasks'[t].fileName = o[2]
              /\ tasks'[t].progress = tasks[t].progress
              /\ tasks'[t].total = tasks[t].total
              /\ tasks'[t].logs = tasks[t].logs
       /\ ResetTask(t) =>
            /\ tasks'[t].status = "idle"
            /\ tasks'[t].progress = 0
            /\ tasks'[t].total = 0
            /\ tasks'[t].logs = <<>>
            /\ tasks'[t].result = Undefined
            /\ tasks'[t].fileName = Undefined]_vars

\* a task that was logged to, updated with (2, 10) and then completed with a result
C7_Witness ==
  /\ lastOp = Op("completeTask", "pdfToZip", 0)
  /\ tasks["pdfToZip"].status = "completed"
  /\ tasks["pdfToZip"].progress = 2
  /\ tasks["pdfToZip"].total = 10
  /\ tasks["pdfToZip"].result = "blob"
  /\ tasks["pdfToZip"].fileName = "x.zip"
  /\ Len(tasks["pdfToZip"].logs) = MaxLogs

\* C8: in every state of every task, progress and total are non-negative and
\* progress <= total whenever total > 0.
C8_ProgressWithinTotal ==
  \A t \in TaskTypes :
    /\ tasks[t].progress >= 0
    /\ tasks[t].total >= 0
    /\ tasks[t].total > 0 => tasks[t].progress <= tasks[t].total

\* two overlapping runs of pdfToZip: the newer one has written its last progress
\* update, then the older one writes its own
C8_Witness ==
  /\ runs[1].type = "pdfToZip" /\ runs[2].type = "pdfToZip"
  /\ runs[1].n = 2 /\ runs[2].n = 1
  /\ runs[2].pc = "zip"
  /\ lastOp = Op("updateTaskProgress", "pdfToZip", 1)
  /\ tasks["pdfToZip"].progress = 2
  /\ tasks["pdfToZip"].total = 2

\* C9: between one resetTask of a task type and the next, the progress of the
\* task never decreases.
C9_ProgressNeverDecreases ==
  [][\A t \in TaskTypes :
       tasks'[t].progress < tasks[t].progress =>
         (lastOp'.op = "resetTask" /\ lastOp'.task = t)]_vars

\* C10: result and fileName are set only if status = completed.
C10_OutputOnlyWhenCompleted ==
  \A t \in TaskTypes :
    tasks[t].status # "completed" =>
      (tasks[t].result = Undefined /\ tasks[t].fileName = Undefined)

(***************************************************************************)
(* The progress window of ExtraTools: a FloatingWindow with id               *)
(* 'extra-progress', rendered while showProgressWindow is true and shown by  *)
(* the window manager while its registry entry is visible and not minimized  *)
(***************************************************************************)
ProgressId == "extra-progress"

\* ExtraTools is shown and its mount effect has registered the progress window
Mounted == ProgressId \in DOMAIN windows

\* initialState of the progress window as openProgressWindow passes it
OpenProgressInit ==
  [title |-> "Task Progress",
   position |-> [x |-> InnerWidth - 450, y |-> 100],
   size |-> [width |-> 400, height |-> 500],
   icon |-> "chart"]

\* the progress window is on screen: ExtraTools renders the FloatingWindow and
\* the FloatingWindow's render guards let it through
ProgressDisplayed ==
  /\ showProgressWindow
  /\ Mounted
  /\ Truthy(windows[ProgressId], "visible")
  /\ ~Truthy(windows[ProgressId], "minimized")

\* useEffect of ExtraTools: registers the progress window, hidden
MountProgressWindow ==
  /\ ~Mounted
  /\ CreateWindow(ProgressId, ProgressWindowInit)

\* the Progress button of the ExtraTools header
OpenProgressWindow ==
  /\ active = 0
  /\ dialog = "none"
  /\ Mounted
  /\ IF ProgressId \in DOMAIN windows
       THEN /\ windows' = updateWindow(windows, ProgressId, [visible |-> TRUE])
            /\ lastCall' = Call("updateWindow", ProgressId, NoGeometry)
            /\ UNCHANGED <<maxZIndex, issued>>
       ELSE /\ Issue
            /\ windows' = createWindow(windows, ProgressId, OpenProgressInit, getNextZIndex)
            /\ lastCall' = Call("createWindow", ProgressId, NoGeometry)
  /\ showProgressWindow' = TRUE
  /\ UNCHANGED <<renderedMaxZIndex, tasks, runs, active, dialog, lastOp, exportVars, gestureVars, rangeVars, popupVars>>

\* the close button of the progress window: closeWindow(id); onClose()
CloseProgressWindow ==
  /\ active = 0
  /\ dialog = "none"
  /\ ProgressDisplayed
  /\ windows' = closeWindow(windows, ProgressId)
  /\ lastCall' = Call("closeWindow", ProgressId, NoGeometry)
  /\ showProgressWindow' = FALSE
  /\ UNCHANGED <<maxZIndex, renderedMaxZIndex, issued, tasks, runs, active, dialog, lastOp,
                 exportVars, gestureVars, rangeVars, popupVars>>

ProgressNext ==
  \/ MountProgressWindow
  \/ OpenProgressWindow
  \/ CloseProgressWindow
  \/ Render
  \/ Mounted /\ \E r \in Runs, valid \in BOOLEAN : StartTextToTxt(r, valid)
  \/ Mounted /\ OpenPicker("pdfToZip")
  \/ CancelPicker
  \/ \E r \in Runs : StartFromPicker(r, "pdfToZip", 0, TRUE)
  \/ \E t \in TaskTypes : UserReset(t)
  \/ \E r \in Runs : handlePdfToZip(r)
  \/ \E r \in Runs : handleTextToTxt(r)

SpecProgress == Init /\ [][ProgressNext]_vars

\* C16: when a handler starts a run (resets the task), the progress window is
\* displayed once that step is done, with no further user action:
\* showProgressWindow is true and the registry entry of 'extra-progress' is visible.
C16_RunSurfacesProgressWindow ==
  [][\A r \in Runs :
       (runs[r].pc = "reset" /\ runs'[r].pc = "logStart") =>
         /\ showProgressWindow'
         /\ ProgressId \in DOMAIN windows'
         /\ Truthy(windows'[ProgressId], "visible")]_vars

(***************************************************************************)
(* Export adapter (browserUtils.ts). One call is followed from its entry    *)
(* to the settling of its promise; every external call (anchor click,       *)
(* Filesystem.writeFile, Share.share, Browser.open, window.open) returns or *)
(* throws. exportState.acts records the external calls made by the current  *)
(* call of the adapter, urls the object URLs created and not yet revoked,   *)
(* pending the URLs whose setTimeout(revokeObjectURL) has not fired yet.    *)
(***************************************************************************)
\* record of an external call: its name, the URL passed to it (0: none), and
\* whether it returned (TRUE) or threw (FALSE)
Act(name, url, ok) == [act |-> name, url |-> url, ok |-> ok]

\* window.open without the URL of the payload
windowOpenBlank(url, ok) == Act("window.open", 0, ok)

\* the catch block of openInSystemBrowser: window.open(url, '_system')
windowOpen(url, ok) == Act("window.open", url, ok)

\* URL.createObjectURL(blob): a fresh URL, alive until revoked
createObjectURL(e) ==
  [e EXCEPT !.created = e.created + 1, !.urls = e.urls \cup {e.created + 1}]

\* link.click() followed by setTimeout(() => URL.revokeObjectURL(url), 100);
\* when click throws the timer is never set
anchorClick(e, url, ok) ==
  [e EXCEPT !.acts = Append(e.acts, Act("link.click", url, ok)),
            !.pending = IF ok THEN e.pending \cup {url} ELSE e.pending]

\* URL.revokeObjectURL(url)
revokeObjectURL(e, url) == [e EXCEPT !.urls = e.urls \ {url}]

\* the promise of the adapter's entry function settles
Settled(e, outcome) == [e EXCEPT !.pc = outcome]

\* saveFileToDevice settles and its caller continues:
\*  - the popup's share handler swallows a rejection, removes the overlay and resolves
\*  - downloadBlob revokes its own URL after a success and swallows a rejection
SfdReturn(e, outcome) ==
  LET f == [e EXCEPT !.sfdOutcome = outcome] IN
  CASE e.caller = "popup" -> Settled(f, "resolved")
    [] e.caller = "downloadBlob" ->
         IF outcome = "resolved"
           THEN Settled(revokeObjectURL(f, f.dbUrl), "resolved")
           ELSE Settled(f, "resolved")
    [] OTHER -> Settled(f, outcome)

\* the platform capability check: window.Capacitor?.isNativePlatform?.()
isCapacitorNative == exportState.native

ExportEntries == {"handleFileExport", "downloadBlob", "saveFileToDevice"}

ExportStep(e) ==
  /\ exportState' = e
  /\ UNCHANGED <<wmVars, trackerVars, gestureVars, rangeVars, popupVars>>

\* a caller invokes an entry function of the adapter on a platform
StartExport(entry, native) ==
  /\ exportState.pc \in {"idle", "resolved", "rejected"}
  /\ exportState.calls < MaxExports
  /\ ExportStep([exportState EXCEPT
       !.pc = entry, !.entry = entry, !.native = native,
       !.caller = IF entry = "saveFileToDevice" THEN "direct" ELSE "none",
       !.acts = <<>>, !.sfdOutcome = "none", !.url = 0, !.dbUrl = 0,
       !.calls = exportState.calls + 1])

\* handleFileExport: await showDownloadOptionsPopup(); the executor of the
\* popup's promise builds the dialog (popup_open) or throws, and then the catch
\* block downloads through an anchor
handleFileExport ==
  /\ exportState.pc = "handleFileExport"
  /\ \/ ExportStep([exportState EXCEPT !.pc = "popup_open"])
     \/ \E ok \in BOOLEAN :
          LET e == createObjectURL(exportState) IN
          ExportStep(Settled(anchorClick(e, e.created, ok),
                             IF ok THEN "resolved" ELSE "rejected"))

\* showDownloadOptionsPopup: the user's choice in the dialog
showDownloadOptionsPopup ==
  /\ exportState.pc = "popup_open"
  /\ \* Browser Download
     \/ \E ok \in BOOLEAN :
          LET e == createObjectURL(exportState) IN
          ExportStep(Settled(anchorClick(e, e.created, ok), "resolved"))
     \* Save to Device & Share: rendered only on a native platform
     \/ /\ isCapacitorNative
        /\ ExportStep([exportState EXCEPT !.pc = "sfd_encode", !.caller = "popup"])
     \* Cancel, or a click on the overlay
     \/ ExportStep(Settled(exportState, "resolved"))

\* downloadBlob up to its first await
downloadBlob ==
  /\ exportState.pc = "downloadBlob"
  /\ LET e == [createObjectURL(exportState) EXCEPT !.dbUrl = exportState.created + 1] IN
     IF ~isCapacitorNative
       THEN \E ok \in BOOLEAN : ExportStep(Settled(anchorClick(e, e.dbUrl, ok), "resolved"))
       ELSE ExportStep([e EXCEPT !.pc = "sfd_encode", !.caller = "downloadBlob"])

\* the catch block of saveFileToDevice, up to the await inside openInSystemBrowser
SfdFallback(e) ==
  LET f == createObjectURL(e) IN [f EXCEPT !.pc = "osb_open", !.url = f.created]

\* saveFileToDevice: blobToBase64, Filesystem.writeFile, Share.share in one try
saveFileToDevice ==
  LET e == exportState
      did(name, url, ok) == [e EXCEPT !.acts = Append(e.acts, Act(name, url, ok))]
  IN
  \/ /\ e.pc = "saveFileToDevice"
     /\ ExportStep([e EXCEPT !.pc = "sfd_encode"])
  \/ /\ e.pc = "sfd_encode"
     /\ \/ ExportStep([did("blobToBase64", 0, TRUE) EXCEPT !.pc = "sfd_write"])
        \/ ExportStep(SfdFallback(did("blobToBase64", 0, FALSE)))
  \/ /\ e.pc = "sfd_write"
     /\ \/ ExportStep([did("Filesystem.writeFile", 0, TRUE) EXCEPT !.pc = "sfd_share"])
        \/ ExportStep(SfdFallback(did("Filesystem.writeFile", 0, FALSE)))
  \/ /\ e.pc = "sfd_share"
     /\ \/ ExportStep(SfdReturn(did("Share.share", 0, TRUE), "resolved"))
        \/ ExportStep(SfdFallback(did("Share.share", 0, FALSE)))

\* openInSystemBrowser: await Browser.open({ url }); its catch block calls
\* window.open(url, '_system'). Back in saveFileToDevice the URL is revoked,
\* unless openInSystemBrowser rejected
openInSystemBrowser ==
  LET e == exportState
      opened(ok) == [e EXCEPT !.acts = Append(e.acts, Act("Browser.open", e.url, ok))]
  IN
  /\ e.pc = "osb_open"
  /\ \/ ExportStep(SfdReturn(revokeObjectURL(opened(TRUE), e.url), "resolved"))
     \/ LET f == [opened(FALSE) EXCEPT !.acts = Append(@, windowOpen(e.url, TRUE))] IN
        ExportStep(SfdReturn(revokeObjectURL(f, e.url), "resolved"))
     \/ LET f == [opened(FALSE) EXCEPT !.acts = Append(@, windowOpen(e.url, FALSE))] IN
        ExportStep(SfdReturn(f, "rejected"))

\* a setTimeout(() => URL.revokeObjectURL(url), 100) fires
RevokeTimer(url) ==
  /\ url \in exportState.pending
  /\ ExportStep([revokeObjectURL(exportState, url) EXCEPT !.pending = @ \ {url}])

ExportNext ==
  \/ \E entry \in ExportEntries, native \in BOOLEAN : StartExport(entry, native)
  \/ handleFileExport
  \/ showDownloadOptionsPopup
  \/ downloadBlob
  \/ saveFileToDevice
  \/ openInSystemBrowser
  \/ \E url \in 1..(2 * MaxExports) : RevokeTimer(url)

SpecExport == Init /\ [][ExportNext]_vars

(***************************************************************************)
(* Drag and resize gestures of FloatingWindow. A pointer-down on the header *)
(* or on the corner handle starts a gesture: its closures capture the       *)
(* pointer position and the window's position and size of that render, and  *)
(* its handleMove / handleEnd are registered on the document. A document    *)
(* event runs every listener registered for its type, in registration       *)
(* order. Mouse and touch are separate event sources.                       *)
(***************************************************************************)
Devices == {"mouse", "touch"}

\* the document listeners a gesture registers for its input device
Listeners(device) ==
  IF device = "touch" THEN {"touchmove", "touchend"} ELSE {"mousemove", "mouseup"}

MoveEvent(device) == IF device = "touch" THEN "touchmove" ELSE "mousemove"
EndEvent(device) == IF device = "touch" THEN "touchend" ELSE "mouseup"

\* Math.max(a, b)
Max(a, b) == IF a >= b THEN a ELSE b

\* one axis of the edge snap in the drag's handleMove: the far-edge test comes
\* last in the code and overrides the near-edge one
SnapAxis(new, extent, inner) ==
  IF new + extent > inner - SnapThreshold THEN inner - extent
  ELSE IF new < SnapThreshold THEN 0
  ELSE new

\* the candidate position of a drag move: start position + (pointer - start pointer)
Candidate(g, clientX, clientY) ==
  [x |-> g.startPos.x + (clientX - g.startX),
   y |-> g.startPos.y + (clientY - g.startY)]

\* position written by the drag's handleMove
DragPosition(g, clientX, clientY) ==
  [x |-> SnapAxis(Candidate(g, clientX, clientY).x, g.size.width, InnerWidth),
   y |-> SnapAxis(Candidate(g, clientX, clientY).y, g.size.height, InnerHeight)]

\* the resize's handleMove without the clamp to the minimum size
ResizeSizeUnclamped(g, clientX, clientY) ==
  [width |-> g.size.width + (clientX - g.startX),
   height |-> g.size.height + (clientY - g.startY)]

\* size written by the resize's handleMove
ResizeSize(g, clientX, clientY) ==
  [width |-> Max(MinWidth, g.size.width + (clientX - g.startX)),
   height |-> Max(MinHeight, g.size.height + (clientY - g.startY))]

\* handleMove of gesture g: one updateWindow call
handleMove(prev, g, clientX, clientY) ==
  IF g.kind = "drag"
    THEN updateWindow(prev, g.id, [position |-> DragPosition(g, clientX, clientY)])
    ELSE updateWindow(prev, g.id, [size |-> ResizeSize(g, clientX, clientY)])

\* handleEnd that removes only the release listeners
handleEndKeepsMove(g) == [g EXCEPT !.listeners = @ \ {"mouseup", "touchend"}]

\* handleEnd of gesture g: removes its move and release listeners of both devices
handleEnd(g) == [g EXCEPT !.listeners = {}]

\* the gestures holding a listener for an event type, in registration order
Listening(type) == {k \in 1..Len(gestures) : type \in gestures[k].listeners}

\* the registry after the listeners k..Len(gestures) of a move event have run
RECURSIVE Dispatch(_, _, _, _, _)
Dispatch(prev, k, type, clientX, clientY) ==
  IF k > Len(gestures) THEN prev
  ELSE Dispatch(IF type \in gestures[k].listeners
                  THEN handleMove(prev, gestures[k], clientX, clientY)
                  ELSE prev,
                k + 1, type, clientX, clientY)

\* FloatingWindow renders the window (and so its header and buttons)
Displayed(id) ==
  /\ id \in DOMAIN windows
  /\ Truthy(windows[id], "visible")
  /\ ~Truthy(windows[id], "minimized")

\* a gesture as its closures hold it
Gesture(kind, id, device, startX, startY) ==
  [kind |-> kind, id |-> id, device |-> device, startX |-> startX, startY |-> startY,
   startPos |-> windows[id].position, size |-> windows[id].size,
   listeners |-> Listeners(device)]

\* pointer-down on the header, at the middle of the title bar
handleDragStart(id, device) ==
  /\ Displayed(id)
  /\ Len(gestures) < MaxGestures
  \* if (windowState.maximized) return
  /\ ~Truthy(windows[id], "maximized")
  /\ Issue
  /\ windows' = focusWindow(windows, id, getNextZIndex)
  /\ lastCall' = Call("focusWindow", id, NoGeometry)
  /\ gestures' = Append(gestures,
       Gesture("drag", id, device,
               windows[id].position.x + (windows[id].size.width \div 2),
               windows[id].position.y + 10))
  /\ UNCHANGED <<renderedMaxZIndex, trackerVars, exportVars, rangeVars, popupVars>>

\* pointer-down on the corner handle, rendered at the bottom right of a window
\* that is not maximized
handleResizeStart(id, device) ==
  /\ Displayed(id)
  /\ Len(gestures) < MaxGestures
  /\ ~Truthy(windows[id], "maximized")
  /\ gestures' = Append(gestures,
       Gesture("resize", id, device,
               windows[id].position.x + windows[id].size.width,
               windows[id].position.y + windows[id].size.height))
  /\ UNCHANGED <<wmVars, trackerVars, exportVars, rangeVars, popupVars>>

\* a mousemove / touchmove on the document
PointerMove(device, clientX, clientY) ==
  /\ windows' = Dispatch(windows, 1, MoveEvent(device), clientX, clientY)
  /\ UNCHANGED <<maxZIndex, renderedMaxZIndex, issued, lastCall, gestures,
                 trackerVars, exportVars, rangeVars, popupVars>>

\* a mouseup / touchend on the document
PointerUp(device) ==
  /\ gestures' = [k \in 1..Len(gestures) |->
                    IF EndEvent(device) \in gestures[k].listeners
                      THEN handleEnd(gestures[k]) ELSE gestures[k]]
  /\ UNCHANGED <<wmVars, trackerVars, exportVars, rangeVars, popupVars>>

\* the maximize button of the header: restore when maximized, maximize otherwise
handleMaximize(id) ==
  /\ Displayed(id)
  /\ IF Truthy(windows[id], "maximized") THEN RestoreWindow(id) ELSE MaximizeWindow(id)

\* pointer positions of the move events
Pointers == {<<195, 5>>, <<510, 400>>, <<1100, 400>>}

GestureWindows == {"w1"}

GestureNext ==
  \/ \E id \in GestureWindows : ~(id \in DOMAIN windows) /\ CreateWindow(id, [title |-> "T"])
  \/ \E id \in GestureWindows, device \in Devices : handleDragStart(id, device)
  \/ \E id \in GestureWindows, device \in Devices : handleResizeStart(id, device)
  \/ \E device \in Devices, p \in Pointers : PointerMove(device, p[1], p[2])
  \/ \E device \in Devices : PointerUp(device)
  \/ \E id \in GestureWindows : handleMaximize(id)

SpecGesture == Init /\ [][GestureNext]_vars

(***************************************************************************)
(* The range parser                                                        *)
(***************************************************************************)
\* characters of the inputs: digits, the hyphen, the separator, white space
\* and a character no pattern accepts
Chars == {"1", "3", "-", ",", " ", "a"}

\* \d
Digits == {"0", "1", "2", "3", "4", "5", "6", "7", "8", "9"}

\* [-...] of the range pattern, as far as Chars has it
Hyphens == {"-"}

\* \s, as far as Chars has it
Spaces == {" "}

DigitValue(c) ==
  CASE c = "0" -> 0 [] c = "1" -> 1 [] c = "2" -> 2 [] c = "3" -> 3 [] c = "4" -> 4
    [] c = "5" -> 5 [] c = "6" -> 6 [] c = "7" -> 7 [] c = "8" -> 8 [] c = "9" -> 9

\* parseInt(digits, 10) of a string of digits
RECURSIVE parseInt(_)
parseInt(ds) ==
  IF ds = <<>> THEN 0
  ELSE parseInt(SubSeq(ds, 1, Len(ds) - 1)) * 10 + DigitValue(ds[Len(ds)])

\* input.split(sep)
RECURSIVE Split(_, _)
Split(str, sep) ==
  IF \E i \in 1..Len(str) : str[i] = sep
    THEN LET i == CHOOSE i \in 1..Len(str) :
                    str[i] = sep /\ \A j \in 1..(i - 1) : str[j] # sep
         IN <<SubSeq(str, 1, i - 1)>> \o Split(SubSeq(str, i + 1, Len(str)), sep)
    ELSE <<str>>

\* p.trim()
RECURSIVE Trim(_)
Trim(str) ==
  IF str # <<>> /\ str[1] \in Spaces THEN Trim(Tail(str))
  ELSE IF str # <<>> /\ str[Len(str)] \in Spaces THEN Trim(SubSeq(str, 1, Len(str) - 1))
  ELSE str

\* filter(p => p): the empty string is falsy
NonEmpty(part) == part # <<>>

\* input.split(',').map(p => p.trim()).filter(p => p)
Parts(input) ==
  LET split == Split(input, ",") IN
  SelectSeq([k \in 1..Len(split) |-> Trim(split[k])], NonEmpty)

AllIn(str, set) == \A k \in 1..Len(str) : str[k] \in set

\* /^(\d+)$/ : the captured group, <<>> when there is no match
singleMatch(part) ==
  IF part # <<>> /\ AllIn(part, Digits) THEN <<part>> ELSE <<>>

\* /^(\d+)\s*[-...]\s*(\d+)$/ : the two captured groups, <<>> when there is
\* no match
hyphenMatch(part) ==
  LET hs == {i \in 1..Len(part) : part[i] \in Hyphens} IN
  IF Cardinality(hs) # 1 THEN <<>>
  ELSE LET i == CHOOSE i \in hs : TRUE
           left == SubSeq(part, 1, i - 1)
           right == SubSeq(part, i + 1, Len(part))
           n == Cardinality({k \in 1..Len(left) : AllIn(SubSeq(left, 1, k), Digits)})
           m == Cardinality({k \in 1..Len(right) :
                               AllIn(SubSeq(right, k, Len(right)), Digits)})
       IN IF /\ n >= 1 /\ AllIn(SubSeq(left, n + 1, Len(left)), Spaces)
             /\ m >= 1 /\ AllIn(SubSeq(right, 1, Len(right) - m), Spaces)
            THEN <<SubSeq(left, 1, n), SubSeq(right, Len(right) - m + 1, Len(right))>>
            ELSE <<>>

RangeDescriptor(raw, start, end) == [raw |-> raw, normalized |-> [start |-> start, end |-> end]]

\* the loop body with every later part skipped once an error has been recorded
parsePartStopsAtError(acc, part) ==
  IF acc.errors # <<>> THEN acc
  ELSE IF hyphenMatch(part) # <<>> /\ parseInt(hyphenMatch(part)[1]) <= parseInt(hyphenMatch(part)[2])
    THEN [acc EXCEPT !.ranges = Append(@, RangeDescriptor(part, parseInt(hyphenMatch(part)[1]),
                                                           parseInt(hyphenMatch(part)[2])))]
  ELSE IF hyphenMatch(part) = <<>> /\ singleMatch(part) # <<>>
    THEN [acc EXCEPT !.ranges = Append(@, RangeDescriptor(part, parseInt(part), parseInt(part)))]
  ELSE [acc EXCEPT !.errors = Append(@, [kind |-> "format", part |-> part])]

\* the body of the loop over the parts: one range or one error per part
parsePart(acc, part) ==
  LET hyphen == hyphenMatch(part)
      single == singleMatch(part)
  IN IF hyphen # <<>>
       THEN LET start == parseInt(hyphen[1])
                end == parseInt(hyphen[2])
            IN IF start > end
                 THEN [acc EXCEPT !.errors = Append(@, [kind |-> "order", part |-> part])]
                 ELSE [acc EXCEPT !.ranges = Append(@, RangeDescriptor(part, start, end))]
     ELSE IF single # <<>>
       THEN LET num == parseInt(single[1])
            IN [acc EXCEPT !.ranges = Append(@, RangeDescriptor(part, num, num))]
     ELSE [acc EXCEPT !.errors = Append(@, [kind |-> "format", part |-> part])]

\* for (const part of parts)
RECURSIVE parseLoop(_, _, _)
parseLoop(parts, k, acc) ==
  IF k > Len(parts) THEN acc ELSE parseLoop(parts, k + 1, parsePart(acc, parts[k]))

parseRangeInput(input) ==
  IF Trim(input) = <<>>
    THEN [success |-> FALSE, ranges |-> <<>>,
          errors |-> <<[kind |-> "empty", part |-> <<>>]>>]
    ELSE LET acc == parseLoop(Parts(input), 1, [ranges |-> <<>>, errors |-> <<>>])
         IN [success |-> Len(acc.errors) = 0, ranges |-> acc.ranges, errors |-> acc.errors]

\* Array.from(set).sort((a, b) => a - b)
RECURSIVE SortAscending(_)
SortAscending(set) ==
  IF set = {} THEN <<>>
  ELSE LET least == CHOOSE n \in set : \A o \in set : n <= o
       IN <<least>> \o SortAscending(set \ {least})

\* the expansion with the end of every range left out
expandRangesExclusiveEnd(ranges) ==
  SortAscending(UNION {ranges[k].normalized.start..(ranges[k].normalized.end - 1) :
                         k \in 1..Len(ranges)})

\* pageNumbers.add(i) for every i of every range, then the sorted array
expandRangesToPages(ranges) ==
  LET pageNumbers == UNION {{i \in ranges[k].normalized.start..ranges[k].normalized.end : TRUE} :
                              k \in 1..Len(ranges)}
  IN SortAscending(pageNumbers)

\* the input strings
Inputs == UNION {[1..n -> Chars] : n \in 0..MaxLen}

\* the descriptor lists handed to expandRangesToPages directly
GivenRanges ==
  UNION {[1..n -> {RangeDescriptor(<<>>, start, end) :
                     start \in 1..MaxPageNumber, end \in 1..MaxPageNumber}] :
           n \in 0..MaxRanges}

RangeSpecInit ==
  /\ WMInit /\ TrackerInit /\ ExportInit /\ GestureInit /\ PopupInit
  /\ \/ \E input \in Inputs : rangeState = NoCall(input, <<>>)
     \/ \E given \in GivenRanges : rangeState = NoCall(<<>>, given)

\* a call parseRangeInput(input)
ParseInput ==
  /\ ~rangeState.parsed
  /\ ~rangeState.expanded
  /\ rangeState.given = <<>>
  /\ rangeState' = [rangeState EXCEPT !.parsed = TRUE,
                                      !.result = parseRangeInput(rangeState.input)]
  /\ UNCHANGED <<wmVars, trackerVars, exportVars, gestureVars, popupVars>>

\* a call expandRangesToPages(ranges)
ExpandPages ==
  /\ ~rangeState.expanded
  /\ ~rangeState.parsed
  /\ rangeState.input = <<>>
  /\ rangeState' = [rangeState EXCEPT !.expanded = TRUE,
                                      !.source = rangeState.given,
                                      !.pages = expandRangesToPages(rangeState.given)]
  /\ UNCHANGED <<wmVars, trackerVars, exportVars, gestureVars, popupVars>>

RangeNext == ParseInput \/ ExpandPages

SpecRange == RangeSpecInit /\ [][RangeNext]_vars

(***************************************************************************)
(* The controls of the progress window: the Progress button of ExtraTools,  *)
(* the buttons of the window header and the entry of the window in the      *)
(* MinimizedWindowBar                                                       *)
(***************************************************************************)
\* MinimizedWindowBar lists the windows that are minimized and visible
InMinimizedBar(id) ==
  /\ id \in DOMAIN windows
  /\ Truthy(windows[id], "minimized")
  /\ Truthy(windows[id], "visible")

\* the minimize button of the header
handleMinimize(id) == MinimizeWindow(id)

\* a click on the entry of the progress window in the MinimizedWindowBar
RestoreFromBar ==
  /\ InMinimizedBar(ProgressId)
  /\ RestoreWindow(ProgressId)

\* a click on the close button of that entry: closeWindow(window.id), with no
\* onClose callback
CloseFromBar ==
  /\ InMinimizedBar(ProgressId)
  /\ CloseWindow(ProgressId)

ControlsNext ==
  \/ MountProgressWindow
  \/ OpenProgressWindow
  \/ CloseProgressWindow
  \* the header buttons and the window body exist while the window is displayed
  \/ ProgressDisplayed /\ handleMinimize(ProgressId)
  \/ ProgressDisplayed /\ handleMaximize(ProgressId)
  \/ ProgressDisplayed /\ FocusWindow(ProgressId)
  \/ RestoreFromBar
  \/ CloseFromBar
  \/ Render

SpecControls == Init /\ [][ControlsNext]_vars

(***************************************************************************)
(* The export popup (showDownloadOptionsPopup). Every click handler ends    *)
(* with document.body.removeChild(overlay); resolve(). The handler of the   *)
(* save-and-share button awaits saveFileToDevice first, and the overlay     *)
(* stays in the document, with all its buttons, during that await.          *)
(***************************************************************************)
\* attached: the overlay is a child of document.body
\* removed: removeChild calls that took the overlay out of the document
\* resolveCalls: calls of the promise's resolve
\* awaiting: share handlers that await saveFileToDevice
\* shares: clicks on the save-and-share button so far
\* thrown: handlers ended by the NotFoundError of removeChild
\* handler: the click handler that ran last
Popup(native) ==
  [native |-> native, attached |-> TRUE, removed |-> 0, resolveCalls |-> 0,
   awaiting |-> 0, shares |-> 0, thrown |-> 0, handler |-> "none"]

\* removeChild that ignores a node that is not a child
removeChildSilent(p) ==
  IF p.attached THEN [p EXCEPT !.attached = FALSE, !.removed = @ + 1] ELSE p

\* document.body.removeChild(overlay): throws NotFoundError when the overlay is
\* not a child of document.body
removeChild(p) ==
  IF p.attached THEN [p EXCEPT !.attached = FALSE, !.removed = @ + 1]
  ELSE [p EXCEPT !.thrown = @ + 1]

\* document.body.removeChild(overlay); resolve();
removeAndResolve(p) ==
  LET q == removeChild(p) IN
  IF q.thrown > p.thrown THEN q ELSE [q EXCEPT !.resolveCalls = @ + 1]

PopupStep(k, p) ==
  /\ popups' = [popups EXCEPT ![k] = p]
  /\ UNCHANGED <<wmVars, trackerVars, exportVars, gestureVars, rangeVars>>

\* handleFileExport calls showDownloadOptionsPopup: the overlay is appended
OpenPopup(native) ==
  /\ Len(popups) < MaxPopups
  /\ \A k \in 1..Len(popups) : popups[k].native = native
  /\ popups' = Append(popups, Popup(native))
  /\ UNCHANGED <<wmVars, trackerVars, exportVars, gestureVars, rangeVars>>

\* click on Browser Download: the download is inside a try/catch, then the
\* overlay is removed and the promise resolved
ClickBrowserDownload(k) ==
  /\ popups[k].attached
  /\ PopupStep(k, removeAndResolve([popups[k] EXCEPT !.handler = "browser-download"]))

\* click on Save to Device & Share (rendered on a native platform): the handler
\* runs up to await saveFileToDevice(...)
ClickAndroidShare(k) ==
  /\ popups[k].attached
  /\ popups[k].native
  /\ popups[k].shares < MaxShares
  /\ PopupStep(k, [popups[k] EXCEPT !.awaiting = @ + 1, !.shares = @ + 1,
                                     !.handler = "android-share"])

\* saveFileToDevice settles (a rejection is caught) and the share handler
\* continues
ShareSettles(k) ==
  /\ popups[k].awaiting > 0
  /\ PopupStep(k, removeAndResolve([popups[k] EXCEPT !.awaiting = @ - 1]))

\* click on Cancel
ClickCancel(k) ==
  /\ popups[k].attached
  /\ PopupStep(k, removeAndResolve([popups[k] EXCEPT !.handler = "cancel-download"]))

\* click on the backdrop: e.target === overlay
ClickOverlay(k) ==
  /\ popups[k].attached
  /\ PopupStep(k, removeAndResolve([popups[k] EXCEPT !.handler = "overlay"]))

PopupNext ==
  \/ \E native \in BOOLEAN : OpenPopup(native)
  \/ \E k \in 1..Len(popups) : ClickBrowserDownload(k)
  \/ \E k \in 1..Len(popups) : ClickAndroidShare(k)
  \/ \E k \in 1..Len(popups) : ShareSettles(k)
  \/ \E k \in 1..Len(popups) : ClickCancel(k)
  \/ \E k \in 1..Len(popups) : ClickOverlay(k)

SpecPopup == Init /\ [][PopupNext]_vars

\* s is a prefix of t
IsPrefix(s, t) ==
  /\ Len(s) <= Len(t)
  /\ \A k \in 1..Len(s) : t[k] = s[k]

\* C11: the log of a task is append-only: a step that is not a resetTask of the
\* task leaves the earlier log as a prefix of the later one, and only resetTask
\* empties a log.
C11_LogAppendOnly ==
  [][\A t \in TaskTypes :
       \/ IsPrefix(tasks[t].logs, tasks'[t].logs)
       \/ /\ lastOp'.op = "resetTask" /\ lastOp'.task = t
          /\ tasks'[t].logs = <<>>]_vars

\* two overlapping runs of pdfToZip have both appended to the log
C11_Witness ==
  /\ runs[1].type = "pdfToZip" /\ runs[2].type = "pdfToZip"
  /\ runs[1].pc = "page"
  /\ lastOp = Op("addLog", "pdfToZip", 2)
  /\ Len(tasks["pdfToZip"].logs) >= 4

\* C12: a handler that rejects its input in validation appends an error entry
\* to the task's log and sets the task's status to error, and changes nothing
\* else of the task.
C12_ValidationSetsError ==
  [][\A r \in Runs :
       (runs[r].pc = "invalid" /\ runs'[r].pc = "done") =>
         LET t == runs[r].type IN
         /\ tasks'[t].status = "error"
         /\ Len(tasks'[t].logs) = Len(tasks[t].logs) + 1
         /\ tasks'[t].logs[Len(tasks'[t].logs)].type = "error"
         /\ tasks'[t].progress = tasks[t].progress
         /\ tasks'[t].total = tasks[t].total]_vars

\* C13: a run in which an awaited external call has thrown ends with the task's
\* status set to error and an error entry in the log, never with completed.
C13_ThrowEndsInError ==
  [][\A r \in Runs :
       (runs[r].pc # "done" /\ runs'[r].pc = "done" /\ runs'[r].threw) =>
         LET t == runs[r].type IN
         /\ tasks'[t].status = "error"
         /\ \E k \in 1..Len(tasks'[t].logs) : tasks'[t].logs[k].type = "error"]_vars

\* C14: with every awaited call eventually returning or throwing, a task in
\* status processing eventually reaches completed or error.
C14_ProcessingEnds ==
  \A t \in TaskTypes :
    (tasks[t].status = "processing") ~> (tasks[t].status \in {"completed", "error"})

\* a run of pdfToZip has ended through its catch block after a page was extracted
C14_Witness ==
  /\ runs[1].type = "pdfToZip"
  /\ runs[1].threw
  /\ runs[1].pc = "done"
  /\ tasks["pdfToZip"].progress = 1
  /\ tasks["pdfToZip"].status = "error"

\* C15: for each task type at most one run is in flight, and while a run is in
\* flight and waiting for an awaited call the task's trigger is disabled.
C15_OneRunInFlight ==
  \A t \in TaskTypes :
    /\ Cardinality({r \in Runs : runs[r].type = t /\ InFlight(r)}) <= 1
    /\ (active = 0 /\ \E r \in Runs : runs[r].type = t /\ InFlight(r))
         => TriggerDisabled(t)

\* the external calls of the current adapter call that returned, by name
Performed(name) ==
  {k \in 1..Len(exportState.acts) :
     exportState.acts[k].act = name /\ exportState.acts[k].ok}

ExportSettled == exportState.pc \in {"resolved", "rejected"}

\* C17: a call of handleFileExport performs exactly one export action, chosen by
\* the platform check alone: an anchor-click download in a browser context, a
\* write to document storage followed by the share sheet in a native context.
C17_ExportByPlatform ==
  (ExportSettled /\ exportState.entry = "handleFileExport") =>
    IF isCapacitorNative
      THEN /\ Performed("link.click") = {}
           /\ \E k \in Performed("Filesystem.writeFile") :
                /\ k < Len(exportState.acts)
                /\ exportState.acts[k + 1].act = "Share.share"
      ELSE /\ Cardinality(Performed("link.click")) = 1
           /\ Performed("Filesystem.writeFile") = {}
           /\ Performed("Share.share") = {}

\* C18: every object URL created by the adapter is revoked: once the adapter's
\* call has settled and no revoke timer is pending, no object URL is alive.
C18_ObjectUrlsRevoked ==
  (ExportSettled /\ exportState.pending = {}) => exportState.urls = {}

\* C19: in saveFileToDevice a failed blob encoding or Filesystem.writeFile is
\* followed by Browser.open on a fresh object URL, a failed Browser.open by
\* window.open on the same URL, and saveFileToDevice rejects only if that
\* window.open call failed.
C19_ExportFallbackChain ==
  LET acts == exportState.acts IN
  /\ \A k \in 1..Len(acts) :
       /\ (acts[k].act \in {"blobToBase64", "Filesystem.writeFile"} /\ ~acts[k].ok) =>
            /\ exportState.url \in 1..exportState.created
            /\ IF k = Len(acts)
                 THEN exportState.pc = "osb_open" /\ exportState.url \in exportState.urls
                 ELSE acts[k + 1].act = "Browser.open" /\ acts[k + 1].url = exportState.url
       /\ (acts[k].act = "Browser.open" /\ ~acts[k].ok) =>
            /\ k < Len(acts)
            /\ acts[k + 1].act = "window.open"
            /\ acts[k + 1].url = acts[k].url
  /\ exportState.sfdOutcome = "rejected" =>
       /\ Len(acts) > 0
       /\ acts[Len(acts)].act = "window.open"
       /\ ~acts[Len(acts)].ok

\* saveFileToDevice has resolved after writeFile, then Browser.open failed and
\* window.open was called with the URL Browser.open was given
C19_Witness ==
  /\ exportState.entry = "saveFileToDevice"
  /\ exportState.sfdOutcome = "resolved"
  /\ exportState.pc = "resolved"
  /\ \E k \in 1..(Len(exportState.acts) - 2) :
       /\ exportState.acts[k] = Act("Filesystem.writeFile", 0, FALSE)
       /\ exportState.acts[k + 1] = Act("Browser.open", exportState.url, FALSE)
       /\ exportState.acts[k + 2] = Act("window.open", exportState.url, TRUE)

\* C20: after the export step of a run has failed, no step of that run changes
\* the task's status or appends to its log.
C20_ExportFailureStaysOffTracker ==
  [][\A r \in Runs :
       (runs[r].exportFailed /\ runs'[r] # runs[r]) =>
         /\ tasks'[runs[r].type].status = tasks[runs[r].type].status
         /\ tasks'[runs[r].type].logs = tasks[runs[r].type].logs]_vars

\* C21: no window-manager operation removes an id from the registry, and
\* closeWindow(id) on a registered window sets visible = false and leaves every
\* other field of the entry unchanged.
C21_CloseHidesAndRetains ==
  [][/\ DOMAIN windows \subseteq DOMAIN windows'
     /\ \A id \in Registered :
          CloseWindow(id) =>
            /\ windows'[id].visible = FALSE
            /\ DOMAIN windows'[id] = DOMAIN windows[id]
            /\ \A f \in DOMAIN windows[id] \ {"visible"} :
                 windows'[id][f] = windows[id][f]]_vars

\* a maximized window with a title and a focus-assigned zIndex has been closed
C21_Witness ==
  /\ lastCall = Call("closeWindow", "w1", NoGeometry)
  /\ "w2" \in DOMAIN windows
  /\ windows["w1"].visible = FALSE
  /\ windows["w1"].maximized = TRUE
  /\ windows["w1"].title = "U"
  /\ windows["w1"].zIndex > InitialMaxZIndex + 1

\* C30: addLog(taskType, message, severity) appends exactly one entry with that
\* message and severity at the end of the task's log and leaves the task's
\* status, progress, total, result and fileName unchanged, in every state.
C30_AddLogOnlyAppends ==
  [][\A t \in TrackerTypes, ty \in LogTypes :
       AddLog(t, "m", ty) =>
         /\ tasks'[t].logs = Append(tasks[t].logs, [message |-> "m", type |-> ty])
         /\ tasks'[t].status = tasks[t].status
         /\ tasks'[t].progress = tasks[t].progress
         /\ tasks'[t].total = tasks[t].total
         /\ tasks'[t].result = tasks[t].result
         /\ tasks'[t].fileName = tasks[t].fileName
         /\ \A u \in TaskTypes \ {t} : tasks'[u] = tasks[u]]_vars

\* an error entry was appended to the log of a completed task that holds a result
C30_Witness ==
  /\ lastOp = Op("addLog", "imagesToPdf", 0)
  /\ tasks["imagesToPdf"].status = "completed"
  /\ tasks["imagesToPdf"].result = "blob"
  /\ tasks["imagesToPdf"].progress = 2
  /\ Len(tasks["imagesToPdf"].logs) = 2
  /\ tasks["imagesToPdf"].logs[2].type = "error"

\* the gesture of a kind on window id whose handleMove runs last for an event type
LastListening(kind, id, type) ==
  LET ks == {k \in Listening(type) : gestures[k].kind = kind /\ gestures[k].id = id} IN
  IF ks = {} THEN 0 ELSE CHOOSE k \in ks : \A j \in ks : j <= k

\* C22: no drag or resize move changes the stored position or size of a window
\* whose maximized flag is true at that moment.
C22_NoMoveWhileMaximized ==
  [][\A d \in Devices, p \in Pointers, id \in GestureWindows :
       (id \in DOMAIN windows /\ Truthy(windows[id], "maximized") /\ PointerMove(d, p[1], p[2])) =>
         /\ windows'[id].position = windows[id].position
         /\ windows'[id].size = windows[id].size]_vars

\* the edge snap of one axis as the claim states it, for a written value
SnappedAsClaimed(written, new, extent, inner) ==
  /\ new < SnapThreshold => written = 0
  /\ new + extent > inner - SnapThreshold => written + extent = inner
  /\ (new >= SnapThreshold /\ new + extent <= inner - SnapThreshold) => written = new

\* C23: every drag move writes the edge-snapped candidate position: per axis 0
\* for a near edge below the threshold, the far edge on the viewport boundary
\* for a far edge beyond viewport minus threshold, the candidate otherwise.
C23_DragWritesSnappedPosition ==
  [][\A d \in Devices, p \in Pointers, id \in GestureWindows :
       (PointerMove(d, p[1], p[2]) /\ LastListening("drag", id, MoveEvent(d)) # 0) =>
         LET g == gestures[LastListening("drag", id, MoveEvent(d))]
             c == Candidate(g, p[1], p[2])
         IN /\ SnappedAsClaimed(windows'[id].position.x, c.x, g.size.width, InnerWidth)
            /\ SnappedAsClaimed(windows'[id].position.y, c.y, g.size.height, InnerHeight)]_vars

\* C24: every size written by a resize move is max(minimum, start size + pointer
\* delta) per axis, so the written width is at least minWidth and the written
\* height at least minHeight.
C24_ResizeKeepsMinimumSize ==
  [][\A d \in Devices, p \in Pointers, id \in GestureWindows :
       (PointerMove(d, p[1], p[2]) /\ LastListening("resize", id, MoveEvent(d)) # 0) =>
         LET g == gestures[LastListening("resize", id, MoveEvent(d))]
             w == g.size.width + (p[1] - g.startX)
             h == g.size.height + (p[2] - g.startY)
             size == windows'[id].size
         IN /\ size.width >= MinWidth /\ size.width >= w
            /\ size.width \in {MinWidth, w}
            /\ size.height >= MinHeight /\ size.height >= h
            /\ size.height \in {MinHeight, h}]_vars

\* a resize gesture has shrunk the window to the minimum size on both axes
C24_Witness ==
  /\ "w1" \in DOMAIN windows
  /\ \E k \in 1..Len(gestures) : gestures[k].kind = "resize" /\ gestures[k].size.width > MinWidth
  /\ windows["w1"].size = [width |-> MinWidth, height |-> MinHeight]

\* C28: a release event (mouseup, touchend) removes every listener of the
\* gestures it ends, and a pointer move does not change the position or size of
\* a window none of whose gestures holds a listener for it.
C28_ListenersRemovedOnRelease ==
  [][/\ \A d \in Devices :
          PointerUp(d) =>
            \A k \in 1..Len(gestures) :
              EndEvent(d) \in gestures[k].listeners => gestures'[k].listeners = {}
     /\ \A d \in Devices, p \in Pointers, id \in GestureWindows :
          (PointerMove(d, p[1], p[2]) /\ id \in DOMAIN windows
             /\ \A k \in 1..Len(gestures) :
                  gestures[k].id = id => MoveEvent(d) \notin gestures[k].listeners) =>
            /\ windows'[id].position = windows[id].position
            /\ windows'[id].size = windows[id].size]_vars

\* a touch drag has moved the window and has been released
C28_Witness ==
  /\ "w1" \in DOMAIN windows
  /\ Len(gestures) = 1
  /\ gestures[1].kind = "drag"
  /\ gestures[1].device = "touch"
  /\ gestures[1].listeners = {}
  /\ windows["w1"].position = [x |-> 0, y |-> 0]

\* C29: a drag gesture and a resize gesture never hold document listeners for
\* the same window at the same time.
C29_DragResizeExclusive ==
  \A j, k \in 1..Len(gestures) :
    ~ /\ gestures[j].kind = "drag" /\ gestures[j].listeners # {}
      /\ gestures[k].kind = "resize" /\ gestures[k].listeners # {}
      /\ gestures[j].id = gestures[k].id

\* C25: a parse result has either success=true with no error and at least one
\* range, or success=false with at least one error.
C25_SuccessHasRanges ==
  rangeState.parsed =>
    \/ /\ rangeState.result.success
       /\ Len(rangeState.result.errors) = 0
       /\ Len(rangeState.result.ranges) > 0
    \/ /\ ~rangeState.result.success
       /\ Len(rangeState.result.errors) >= 1

\* a part the parser accepts as a range
Accepted(part) ==
  \/ singleMatch(part) # <<>>
  \/ /\ hyphenMatch(part) # <<>>
     /\ parseInt(hyphenMatch(part)[1]) <= parseInt(hyphenMatch(part)[2])

Rejected(part) == ~Accepted(part)

\* C26: for an input that is not blank, the accepted ranges are the accepted
\* tokens in input order, each with start <= end, and the errors are the other
\* tokens in input order: one range or one error per non-empty trimmed token,
\* whatever came before it.
C26_OneRangeOrErrorPerToken ==
  (rangeState.parsed /\ Trim(rangeState.input) # <<>>) =>
    LET tokens == Parts(rangeState.input)
        res == rangeState.result
    IN /\ Len(res.ranges) + Len(res.errors) = Len(tokens)
       /\ [k \in 1..Len(res.ranges) |-> res.ranges[k].raw] = SelectSeq(tokens, Accepted)
       /\ [k \in 1..Len(res.errors) |-> res.errors[k].part] = SelectSeq(tokens, Rejected)
       /\ \A k \in 1..Len(res.ranges) :
            res.ranges[k].normalized.start <= res.ranges[k].normalized.end

\* "a, 1-3" has been parsed: one error for the first token, then the range 1-3
C26_Witness ==
  /\ rangeState.parsed
  /\ rangeState.input = <<"a", ",", "1", "-", "3">>
  /\ rangeState.result.errors = <<[kind |-> "format", part |-> <<"a">>]>>
  /\ rangeState.result.ranges = <<RangeDescriptor(<<"1", "-", "3">>, 1, 3)>>

\* C27: the expansion of a list of ranges is strictly ascending and holds
\* exactly the numbers of the inclusive intervals of the list.
C27_ExpandIsSortedUnion ==
  rangeState.expanded =>
    LET pages == rangeState.pages
        ranges == rangeState.source
    IN /\ \A k \in 1..(Len(pages) - 1) : pages[k] < pages[k + 1]
       /\ \A k \in 1..Len(pages) :
            \E r \in 1..Len(ranges) :
              ranges[r].normalized.start <= pages[k] /\ pages[k] <= ranges[r].normalized.end
       /\ \A r \in 1..Len(ranges) :
            \A n \in ranges[r].normalized.start..ranges[r].normalized.end :
              \E k \in 1..Len(pages) : pages[k] = n

\* the overlapping ranges 1-3 and 2-4 have been expanded to 1, 2, 3, 4
C27_Witness ==
  /\ rangeState.expanded
  /\ rangeState.source = <<RangeDescriptor(<<>>, 1, 3), RangeDescriptor(<<>>, 2, 4)>>
  /\ rangeState.pages = <<1, 2, 3, 4>>

\* C31: a step changes the entry of at most one task type, the type the
\* tracker operation of the step was called for; the entries of all other task
\* types are unchanged.
C31_TaskTypesIndependent ==
  [][\A t \in TaskTypes : tasks'[t] # tasks[t] => lastOp'.task = t]_vars

\* a run of textToTxt has completed while a run of pdfToZip is in progress
C31_Witness ==
  /\ lastOp.op = "completeTask"
  /\ lastOp.task = "textToTxt"
  /\ tasks["textToTxt"].status = "completed"
  /\ tasks["pdfToZip"].status = "processing"
  /\ Len(tasks["pdfToZip"].logs) >= 2

\* C32: a superseded run is not cancelled: each of its tracker calls made after
\* the newer run's resetTask is applied to the task's state (a log entry is
\* appended, a progress update sets the status to processing, a completion sets
\* the status to completed and stores the result).
C32_SupersededRunStillWrites ==
  [][\A r \in Runs :
       (Superseded(r) /\ active = r /\ runs'[r] # runs[r]) =>
         LET t == runs[r].type IN
         /\ lastOp'.run = r
         /\ lastOp'.op = "addLog" => Len(tasks'[t].logs) = Len(tasks[t].logs) + 1
         /\ lastOp'.op = "updateTaskProgress" =>
              /\ tasks'[t].status = "processing"
              /\ tasks'[t].total = runs[r].n
         /\ lastOp'.op = "completeTask" =>
              /\ tasks'[t].status = "completed"
              /\ tasks'[t].result = "blob"]_vars

\* the second run of pdfToZip has reset the task and is loading its file; the
\* first run, still running, has then written its page count into the task
C32_Witness ==
  /\ runs[1].type = "pdfToZip"
  /\ runs[2].type = "pdfToZip"
  /\ runs[2].pc = "load"
  /\ lastOp = Op("updateTaskProgress", "pdfToZip", 1)
  /\ runs[1].n = 2
  /\ tasks["pdfToZip"].total = 2
  /\ tasks["pdfToZip"].status = "processing"

\* the step changes nothing of the registry but the given fields of entry id
OnlyFieldsChange(id, fields) ==
  /\ DOMAIN windows' = DOMAIN windows
  /\ \A other \in DOMAIN windows \ {id} : windows'[other] = windows[other]
  /\ DOMAIN windows'[id] = DOMAIN windows[id] \cup fields
  /\ \A f \in DOMAIN windows[id] \ fields : windows'[id][f] = windows[id][f]

\* C33: an operation on a registered id changes only that id's entry and in it
\* only its designated fields: minimizeWindow minimized; maximizeWindow and
\* restoreWindow maximized and minimized; focusWindow zIndex; updateWindow the
\* supplied keys, which take the supplied values.
C33_OperationsChangeDesignatedFields ==
  [][\A id \in DOMAIN windows :
       (windows' # windows /\ lastCall'.id = id) =>
         LET op == lastCall'.op IN
         /\ op = "minimizeWindow" =>
              OnlyFieldsChange(id, {"minimized"}) /\ windows'[id].minimized = TRUE
         /\ op = "maximizeWindow" =>
              /\ OnlyFieldsChange(id, {"maximized", "minimized"})
              /\ windows'[id].maximized = TRUE /\ windows'[id].minimized = FALSE
         /\ op = "restoreWindow" =>
              /\ OnlyFieldsChange(id, {"maximized", "minimized"})
              /\ windows'[id].maximized = FALSE /\ windows'[id].minimized = FALSE
         /\ op = "focusWindow" =>
              OnlyFieldsChange(id, {"zIndex"}) /\ windows'[id].zIndex = getNextZIndex
         /\ op = "updateWindow" =>
              \E updates \in Updates :
                /\ OnlyFieldsChange(id, DOMAIN updates)
                /\ \A f \in DOMAIN updates : windows'[id][f] = updates[f]]_vars

\* a closed, maximized window has been focused next to a second window
C33_Witness ==
  /\ lastCall.op = "focusWindow"
  /\ lastCall.id = "w1"
  /\ "w2" \in DOMAIN windows
  /\ windows["w1"].visible = FALSE
  /\ windows["w1"].maximized = TRUE
  /\ windows["w1"].zIndex > windows["w2"].zIndex

\* C34: a position written by a drag move to a window no larger than the
\* viewport keeps the window inside the viewport on both axes.
C34_DragKeepsWindowInViewport ==
  [][\A d \in Devices, p \in Pointers, id \in GestureWindows :
       (/\ LastListening("drag", id, MoveEvent(d)) # 0
        /\ PointerMove(d, p[1], p[2])
        /\ windows'[id].size.width <= InnerWidth
        /\ windows'[id].size.height <= InnerHeight) =>
         /\ 0 <= windows'[id].position.x
         /\ windows'[id].position.x <= InnerWidth - windows'[id].size.width
         /\ 0 <= windows'[id].position.y
         /\ windows'[id].position.y <= InnerHeight - windows'[id].size.height]_vars

\* C36: the overlay of a popup is taken out of the document at most once and
\* its promise's resolve is called at most once; while the overlay is in the
\* document neither has happened, and once it is out both have happened
\* exactly once.
C36_PopupClosesOnce ==
  \A k \in 1..Len(popups) :
    /\ popups[k].removed <= 1
    /\ popups[k].resolveCalls <= 1
    /\ popups[k].attached => (popups[k].removed = 0 /\ popups[k].resolveCalls = 0)
    /\ ~popups[k].attached => (popups[k].removed = 1 /\ popups[k].resolveCalls = 1)

\* Cancel was clicked while two share handlers were awaiting, and both handlers
\* have continued since
C36_Witness ==
  /\ Len(popups) >= 1
  /\ popups[1].shares = 2
  /\ popups[1].handler = "cancel-download"
  /\ popups[1].awaiting = 0
  /\ popups[1].thrown = 2
  /\ popups[1].removed = 1
  /\ popups[1].resolveCalls = 1

\* C37: after openProgressWindow the progress window is registered with
\* visible = true and minimized = false, and showProgressWindow is true.
C37_OpenProgressDisplaysWindow ==
  [][OpenProgressWindow =>
       /\ ProgressId \in DOMAIN windows'
       /\ Truthy(windows'[ProgressId], "visible")
       /\ ~Truthy(windows'[ProgressId], "minimized")
       /\ showProgressWindow']_vars

\* C38: when the completeTask call of a run that is the only run of its task
\* type brings the task to completed, the task's progress equals its total.
C38_CompletedMeansFullProgress ==
  [][\A r \in Runs :
       (/\ active = r
        /\ runs[r].pc = "complete"
        /\ runs'[r] # runs[r]
        /\ \A q \in Runs \ {r} : runs[q].type # runs[r].type) =>
         /\ tasks'[runs[r].type].status = "completed"
         /\ tasks'[runs[r].type].progress = tasks'[runs[r].type].total]_vars

\* the keys of a WindowState that are not optional
WindowStateKeys ==
  {"id", "visible", "position", "size", "zIndex", "minimized", "maximized",
   "snapState", "title"}

\* C35: every entry of the registry is a complete WindowState whose id is its
\* key, also after operations called with an id that was never created.
C35_EntriesAreComplete ==
  \A id \in DOMAIN windows :
    /\ WindowStateKeys \subseteq DOMAIN windows[id]
    /\ windows[id].id = id

=============================================================================
